---- MODULE Spec2Model ----
(***************************************************************************)
(* Model of the PDF splitting pipeline (split.py: process_pdf and its      *)
(* helpers) and of the caller that turns its result into email drafts      *)
(* (main.py: main, email_draft.py).                                        *)
(*                                                                         *)
(* Python values are tagged records [t, v]: t is the Python type and v the *)
(* payload.  A string is a sequence of tokens (names are sequences of      *)
(* words and separators, amounts are sequences of characters).  A page     *)
(* text is a sequence of lines, each line being [k, c, x]: the kind of     *)
(* line, a currency code and a string.                                     *)
(***************************************************************************)
EXTENDS Integers, Sequences, FiniteSets, TLC

(***************************************************************************)
(* Bounds of the model.                                                    *)
(***************************************************************************)
MaxPages == 2
MaxRuns == 2
MaxStart == 2
MaxChunks == 3
MaxLines == 4
\* responses of the mail service lost in one run
MaxLost == 1

(***************************************************************************)
(* Python values.                                                          *)
(***************************************************************************)
NoneVal == [t |-> "none", v |-> <<>>]
Str(s) == [t |-> "str", v |-> s]
Num(s) == [t |-> "num", v |-> s]
Dict(r) == [t |-> "dict", v |-> r]
List(l) == [t |-> "list", v |-> l]

\* Python truthiness of a value: None, "", 0, {} and [] are falsy.
Truthy(x) ==
  CASE x.t = "none" -> FALSE
    [] x.t = "str" -> x.v # <<>>
    [] x.t = "num" -> x.v # <<"0">>
    [] x.t = "list" -> x.v # <<>>
    [] x.t = "dict" -> \E k \in DOMAIN x.v : x.v[k].t # "none"
    [] OTHER -> TRUE

\* a or b
Or(a, b) == IF Truthy(a) THEN a ELSE b

(***************************************************************************)
(* Strings as sequences of tokens.                                         *)
(***************************************************************************)
RECURSIVE LStrip(_)
LStrip(s) == IF s # <<>> /\ Head(s) \in {" ", "\n"} THEN LStrip(Tail(s)) ELSE s

RECURSIVE RStrip(_)
RStrip(s) ==
  IF s # <<>> /\ s[Len(s)] \in {" ", "\n"} THEN RStrip(SubSeq(s, 1, Len(s) - 1)) ELSE s

Strip(s) == RStrip(LStrip(s))

\* key in s
Contains(s, key) ==
  \E i \in 1..(Len(s) - Len(key) + 1) : SubSeq(s, i, i + Len(key) - 1) = key

\* index of the first occurrence of token c in s, 0 when there is none
FirstIndex(s, c) ==
  IF \E i \in 1..Len(s) : s[i] = c
  THEN CHOOSE i \in 1..Len(s) : s[i] = c /\ \A j \in 1..(i - 1) : s[j] # c
  ELSE 0

\* s.split(c, 1)[0]
BeforeFirst(s, c) ==
  IF FirstIndex(s, c) = 0 THEN s ELSE SubSeq(s, 1, FirstIndex(s, c) - 1)

InvalidChars == {"<", ">", ":", "\"", "/", "\\", "|", "?", "*"}

sanitize_filename(name) ==
  LET replaced == [i \in 1..Len(name) |-> IF name[i] \in InvalidChars THEN "_" ELSE name[i]]
      stripped == Strip(replaced)
  IN IF stripped # <<>> THEN stripped ELSE <<"untitled">>

SPECIAL_MAP ==
  << [key |-> <<"FH", "-", "CAPDYN", ":", "MF", "/", "BOC">>, val |-> <<"CAPDYN">>],
     [key |-> <<"FH", "-", "Mirae">>, val |-> <<"Mirae">>],
     [key |-> <<"FH", "-", "iFund">>, val |-> <<"iFund">>],
     [key |-> <<"FH", "-", "GaoTeng">>, val |-> <<"GaoTeng">>],
     [key |-> <<"FH", "-", "GF", "-", "MMF">>, val |-> <<"GF">>],
     [key |-> <<"FH", "-", "TaiKang">>, val |-> <<"TaiKang">>],
     [key |-> <<"CMB", " ", "Wing", " ", "Lung">>, val |-> <<"GF", " ", "MMF">>],
     [key |-> <<"ICBC(Asia)", " ", "Trustee", " ", "-", " ", "GaoTeng">>, val |-> <<"GaoTeng">>],
     [key |-> <<"BOCI", "-", "Prudential", " ", "Trustee", " ", "-", " ", "Taikang", " ", "Kaitai">>,
      val |-> <<"Taikang">>],
     [key |-> <<"Webull", " ", "Securities">>, val |-> <<"Webull">>],
     [key |-> <<"JPMorgan", " ", "Bank", " ", "Luxembourg", " ", "SA", " ", "-", " ", "Momentum">>,
      val |-> <<"Momentum">>],
     [key |-> <<"BOCI", " ", "Prudential", " ", "Asset", " ", "Management", " ", "Limited">>,
      val |-> <<"BOCIP">>],
     [key |-> <<"FH", "-", "Peak", "/", "Belgrave">>, val |-> <<"Belgrave">>],
     [key |-> <<"FH", "-", "Everbright", "/", "Broker">>, val |-> <<"Everbright">>],
     [key |-> <<"FH", "-", "NJ", "/">>, val |-> <<"Nanjia">>] >>

\* the rule of the first dash is tried before the table
simplify_from_full_DashFirst(full_name) ==
  IF FirstIndex(full_name, "-") # 0 THEN Strip(BeforeFirst(full_name, "-"))
  ELSE IF \E i \in 1..Len(SPECIAL_MAP) : Contains(full_name, SPECIAL_MAP[i].key)
       THEN SPECIAL_MAP[CHOOSE i \in 1..Len(SPECIAL_MAP) :
                          /\ Contains(full_name, SPECIAL_MAP[i].key)
                          /\ \A j \in 1..(i - 1) : ~Contains(full_name, SPECIAL_MAP[j].key)].val
       ELSE Strip(full_name)

simplify_from_full(full_name) ==
  IF full_name = <<>> THEN <<>>
  ELSE IF \E i \in 1..Len(SPECIAL_MAP) : Contains(full_name, SPECIAL_MAP[i].key)
       THEN LET first == CHOOSE i \in 1..Len(SPECIAL_MAP) :
                           /\ Contains(full_name, SPECIAL_MAP[i].key)
                           /\ \A j \in 1..(i - 1) : ~Contains(full_name, SPECIAL_MAP[j].key)
            IN SPECIAL_MAP[first].val
       ELSE Strip(BeforeFirst(full_name, "-"))

(***************************************************************************)
(* Amounts: strings of single characters.                                  *)
(***************************************************************************)
DigitChars == {"0", "1", "2", "3", "4", "5", "6", "7", "8", "9"}

\* the text captured by ([\d,]+\.\d{2}) at the start of s, <<>> when there is no match
AmountMatch(s) ==
  LET dot == FirstIndex(s, ".")
  IN IF /\ dot >= 2
        /\ \A i \in 1..(dot - 1) : s[i] \in DigitChars \cup {","}
        /\ Len(s) >= dot + 2
        /\ s[dot + 1] \in DigitChars
        /\ s[dot + 2] \in DigitChars
     THEN SubSeq(s, 1, dot + 2)
     ELSE <<>>

\* s.replace(',', '')
RECURSIVE RemoveCommas(_)
RemoveCommas(s) ==
  IF s = <<>> THEN <<>>
  ELSE IF Head(s) = "," THEN RemoveCommas(Tail(s))
       ELSE <<Head(s)>> \o RemoveCommas(Tail(s))

\* Decimal(s) accepts s: digits with at most one point and at least one digit
IsDecimal(s) ==
  /\ \E i \in 1..Len(s) : s[i] \in DigitChars
  /\ \A i \in 1..Len(s) : s[i] \in DigitChars \cup {"."}
  /\ Cardinality({i \in 1..Len(s) : s[i] = "."}) <= 1

\* lines 319-323 and 331: the number stored in the output record, None when
\* the text is not a number or the value is not a string at all
PayNum(payment_total) ==
  IF payment_total.t = "str" /\ IsDecimal(RemoveCommas(payment_total.v))
  THEN Num(RemoveCommas(payment_total.v))
  ELSE NoneVal

(***************************************************************************)
(* Page texts: sequences of lines [k, c, x].                               *)
(*   Summary, GrandTotal, RptHeader, Total : the summary markers           *)
(*   TotalCcy  : Total <c> <x>                                             *)
(*   PayGroup  : Payment Group <token> Total <x>  (x empty: no total)      *)
(*   Currency  : Currency : <c>                                            *)
(*   FundHse   : Fund Hse Settlement Inst : <x>                            *)
(*   Other     : anything else                                             *)
(***************************************************************************)
CURRENCIES == {"JPY", "USD", "HKD", "AUD", "EUR", "GBP", "CNY"}

Line(k, c, x) == [k |-> k, c |-> c, x |-> x]

\* ind in text, for the four entries of summary_indicators
HasIndicator(text) ==
  \E i \in 1..Len(text) : text[i].k \in {"Summary", "GrandTotal", "RptHeader", "Total"}

\* "Payment Group" in text
HasPaymentGroup(text) == \E i \in 1..Len(text) : text[i].k = "PayGroup"

\* "Summary" in text
HasSummary(text) == \E i \in 1..Len(text) : text[i].k = "Summary"

\* any(curr in text for curr in [...])
HasCurrencyCode(text) == \E i \in 1..Len(text) : text[i].c \in CURRENCIES

\* the lines matching Total\s*(JPY|...)\s*[\d,]+\.\d{2}
CurrencyTotalLines(text) ==
  {i \in 1..Len(text) :
     text[i].k = "TotalCcy" /\ text[i].c \in CURRENCIES /\ AmountMatch(text[i].x) # <<>>}

\* the first rule does not look for "Payment Group"
is_summary_page_IgnoresPaymentGroup(text) ==
  \/ HasIndicator(text)
  \/ HasSummary(text) /\ HasCurrencyCode(text) /\ Cardinality(CurrencyTotalLines(text)) >= 2

is_summary_page(text) ==
  \/ HasIndicator(text) /\ ~HasPaymentGroup(text)
  \/ HasSummary(text) /\ HasCurrencyCode(text) /\ Cardinality(CurrencyTotalLines(text)) >= 2

\* index of the first line satisfying a regular expression, 0 when none does
FirstLine(text, matches) ==
  IF matches = {} THEN 0 ELSE CHOOSE i \in matches : \A j \in matches : i <= j

CurrencyMatches(text) ==
  {i \in 1..Len(text) : text[i].k = "Currency" /\ text[i].c \in CURRENCIES}

\* (.+) needs one character after the colon; a blank one is enough, and the
\* captured text is then empty once stripped
FundHseMatches(text) ==
  {i \in 1..Len(text) : text[i].k = "FundHse" /\ text[i].x # <<>>}

PayGroupMatches(text) ==
  {i \in 1..Len(text) : text[i].k = "PayGroup" /\ AmountMatch(text[i].x) # <<>>}

Record(full, simp, cur, pay, conf) ==
  [full_name |-> full, simplified_name |-> simp, currency |-> cur,
   payment_total |-> pay, confidence |-> conf]

EmptyContext == [full_name |-> NoneVal, simplified_name |-> NoneVal, currency |-> NoneVal]

\* the payment total is carried forward from the context like the other fields
fallback_extract_from_text_InheritsTotal(page_text, context) ==
  LET mcur == FirstLine(page_text, CurrencyMatches(page_text))
      mfull == FirstLine(page_text, FundHseMatches(page_text))
      mpay == FirstLine(page_text, PayGroupMatches(page_text))
      cur == IF mcur # 0 THEN Str(<<page_text[mcur].c>>)
             ELSE IF Truthy(context.currency) THEN context.currency ELSE NoneVal
      full == IF mfull # 0 THEN Str(Strip(page_text[mfull].x))
              ELSE IF Truthy(context.full_name) THEN context.full_name ELSE NoneVal
      simp == IF mfull # 0 THEN Str(simplify_from_full(Strip(page_text[mfull].x)))
              ELSE IF Truthy(context.simplified_name) THEN context.simplified_name
                   ELSE NoneVal
      pay == IF mpay # 0 THEN Str(AmountMatch(page_text[mpay].x))
             ELSE IF Truthy(context.payment_total) THEN context.payment_total ELSE NoneVal
  IN IF Truthy(simp) /\ Truthy(cur) /\ Truthy(pay)
     THEN Dict(Record(full, simp, cur, pay,
                      Str(<<IF mfull # 0 THEN "MEDIUM" ELSE "LOW">>)))
     ELSE NoneVal

\* the values of the context win over what the page itself says
fallback_extract_from_text_ContextFirst(page_text, context) ==
  LET mcur == FirstLine(page_text, CurrencyMatches(page_text))
      mfull == FirstLine(page_text, FundHseMatches(page_text))
      mpay == FirstLine(page_text, PayGroupMatches(page_text))
      cur == IF Truthy(context.currency) THEN context.currency
             ELSE IF mcur # 0 THEN Str(<<page_text[mcur].c>>) ELSE NoneVal
      full == IF Truthy(context.full_name) THEN context.full_name
              ELSE IF mfull # 0 THEN Str(Strip(page_text[mfull].x)) ELSE NoneVal
      simp == IF Truthy(context.simplified_name) THEN context.simplified_name
              ELSE IF mfull # 0 THEN Str(simplify_from_full(Strip(page_text[mfull].x)))
                   ELSE NoneVal
      pay == IF mpay # 0 THEN Str(AmountMatch(page_text[mpay].x)) ELSE NoneVal
  IN IF Truthy(simp) /\ Truthy(cur) /\ Truthy(pay)
     THEN Dict(Record(full, simp, cur, pay,
                      Str(<<IF mfull # 0 THEN "MEDIUM" ELSE "LOW">>)))
     ELSE NoneVal

fallback_extract_from_text(page_text, context) ==
  LET mcur == FirstLine(page_text, CurrencyMatches(page_text))
      mfull == FirstLine(page_text, FundHseMatches(page_text))
      mpay == FirstLine(page_text, PayGroupMatches(page_text))
      cur == IF mcur # 0 THEN Str(<<page_text[mcur].c>>)
             ELSE IF Truthy(context.currency) THEN context.currency ELSE NoneVal
      full == IF mfull # 0 THEN Str(Strip(page_text[mfull].x))
              ELSE IF Truthy(context.full_name) THEN context.full_name ELSE NoneVal
      simp == IF mfull # 0 THEN Str(simplify_from_full(Strip(page_text[mfull].x)))
              ELSE IF Truthy(context.simplified_name) THEN context.simplified_name
                   ELSE NoneVal
      pay == IF mpay # 0 THEN Str(AmountMatch(page_text[mpay].x)) ELSE NoneVal
  IN IF Truthy(simp) /\ Truthy(cur) /\ Truthy(pay)
     THEN Dict(Record(full, simp, cur, pay,
                      Str(<<IF mfull # 0 THEN "MEDIUM" ELSE "LOW">>)))
     ELSE NoneVal

(***************************************************************************)
(* Oracle responses.  A response text is a sequence of tokens: markup      *)
(* tokens Tok(..) (a fence, a language tag, white space, other text) and   *)
(* JSON documents, which carry the value they parse to.                    *)
(***************************************************************************)
\* the token of three backquotes that opens or closes a Markdown code fence
FENCE == "fence"

Tok(s) == [t |-> "tok", v |-> s]
IsTok(x, s) == x.t = "tok" /\ x.v = s
IsSpace(x) == x.t = "tok" /\ x.v \in {" ", "\n"}

RECURSIVE TLStrip(_)
TLStrip(s) == IF s # <<>> /\ IsSpace(Head(s)) THEN TLStrip(Tail(s)) ELSE s

RECURSIVE TRStrip(_)
TRStrip(s) ==
  IF s # <<>> /\ IsSpace(s[Len(s)]) THEN TRStrip(SubSeq(s, 1, Len(s) - 1)) ELSE s

TStrip(s) == TRStrip(TLStrip(s))

\* positions where a fence starts in s
FenceAt(s) == {i \in 1..Len(s) : IsTok(s[i], FENCE)}

\* positions where a fence followed by the tag json starts in s
JsonFenceAt(s) == {i \in 1..(Len(s) - 1) : IsTok(s[i], FENCE) /\ IsTok(s[i + 1], "json")}

Min(S) == CHOOSE i \in S : \A j \in S : i <= j

\* lines 98-105: the text that is handed to json.loads
StripFences(raw) ==
  LET s == TStrip(raw)
  IN IF s # <<>> /\ IsTok(s[1], FENCE)
     THEN LET opened == IF JsonFenceAt(s) # {}
                        THEN SubSeq(s, Min(JsonFenceAt(s)) + 2, Len(s))
                        ELSE SubSeq(s, Min(FenceAt(s)) + 1, Len(s))
          IN IF FenceAt(opened) # {}
             THEN SubSeq(opened, 1, Min(FenceAt(opened)) - 1)
             ELSE opened
     ELSE s

\* json.loads(s) succeeds: s is one JSON document, white space around it allowed
JsonParses(s) == Len(TStrip(s)) = 1 /\ TStrip(s)[1].t # "tok"
JsonLoads(s) == TStrip(s)[1]

\* the loop over a list keeps the last structured object it meets
RECURSIVE normalize_ai_results_LastDict(_)
normalize_ai_results_LastDict(raw) ==
  CASE raw.t = "none" -> NoneVal
    [] raw.t = "dict" -> raw
    [] raw.t = "list" ->
         IF \E i \in 1..Len(raw.v) : raw.v[i].t = "dict"
         THEN raw.v[CHOOSE i \in 1..Len(raw.v) :
                      raw.v[i].t = "dict" /\ \A j \in (i + 1)..Len(raw.v) : raw.v[j].t # "dict"]
         ELSE NoneVal
    [] raw.t = "str" ->
         IF JsonParses(StripFences(raw.v))
         THEN normalize_ai_results_LastDict(JsonLoads(StripFences(raw.v)))
         ELSE NoneVal
    [] OTHER -> NoneVal

RECURSIVE normalize_ai_results(_)
normalize_ai_results(raw) ==
  CASE raw.t = "none" -> NoneVal
    [] raw.t = "dict" -> raw
    [] raw.t = "list" ->
         IF \E i \in 1..Len(raw.v) : raw.v[i].t = "dict"
         THEN raw.v[Min({i \in 1..Len(raw.v) : raw.v[i].t = "dict"})]
         ELSE NoneVal
    [] raw.t = "str" ->
         IF JsonParses(StripFences(raw.v))
         THEN normalize_ai_results(JsonLoads(StripFences(raw.v)))
         ELSE NoneVal
    [] OTHER -> NoneVal

\* The outcome of model.generate_content: an exception, a response without
\* text, or a response text.
Raised == [t |-> "exception", v |-> <<>>]
NoText == [t |-> "empty", v |-> <<>>]

get_gemini_response(outcome) ==
  CASE outcome.t = "exception" -> NoneVal
    [] outcome.t = "empty" -> NoneVal
    [] OTHER -> normalize_ai_results(outcome)

(***************************************************************************)
(* File names.                                                             *)
(***************************************************************************)
Digit(n) == <<"0", "1", "2", "3", "4", "5", "6", "7", "8", "9">>[n + 1]

\* str(n) for n >= 0, one token per digit
RECURSIVE ToStr(_)
ToStr(n) == IF n < 10 THEN <<Digit(n)>> ELSE ToStr(n \div 10) \o <<Digit(n % 10)>>

\* s.zfill(2)
Zfill2(s) == IF Len(s) >= 2 THEN s ELSE IF Len(s) = 1 THEN <<"0">> \o s ELSE <<"0", "0">>

\* what an f-string writes for a value
Format(x) ==
  CASE x.t \in {"str", "num"} -> x.v
    [] x.t = "none" -> <<"None">>
    [] OTHER -> <<"<object>">>

\* line 306; date_str is one token, chosen_name a string
FileName(date_str, sequence_number, chosen_name, currency) ==
  <<"S", date_str, "-">> \o Zfill2(ToStr(sequence_number)) \o <<"_">>
    \o sanitize_filename(chosen_name) \o <<"_">> \o Format(currency)
    \o <<"-order details.pdf">>

\* line 299
ChosenName(rec) ==
  IF Truthy(rec.simplified_name) THEN rec.simplified_name
  ELSE IF rec.full_name.t = "str" THEN Str(simplify_from_full(rec.full_name.v))
       ELSE NoneVal

\* line 299 raises: simplify_from_full is handed a value that is no string
ChosenNameRaises(rec) ==
  ~Truthy(rec.simplified_name) /\ Truthy(rec.full_name) /\ rec.full_name.t # "str"

\* only an absent record counts, a record with an empty field does not
Incomplete_AbsentOnly(ai) == ~Truthy(ai)

\* lines 285-287: the record is absent or lacks one of the three fields
Incomplete(ai) ==
  \/ ~Truthy(ai)
  \/ ~(Truthy(ai.v.simplified_name) /\ Truthy(ai.v.currency) /\ Truthy(ai.v.payment_total))

\* the context is left as it is
UpdateContext_Keeps(context, rec) == context

\* the context is assigned the fields of the record, empty ones included
UpdateContext_Overwrites(context, rec) ==
  [full_name |-> rec.full_name,
   simplified_name |-> rec.simplified_name,
   currency |-> rec.currency]

\* lines 295-297
UpdateContext(context, rec) ==
  [full_name |-> Or(rec.full_name, context.full_name),
   simplified_name |-> Or(rec.simplified_name, context.simplified_name),
   currency |-> Or(rec.currency, context.currency)]

(***************************************************************************)
(* The inputs of the model: page texts, documents, oracle outcomes.        *)
(***************************************************************************)
Amount1 == <<"1", ",", "2", "3", "4", ".", "5", "6">>
Amount2 == <<"9", "9", ".", "0", "0">>

PageFull ==
  << Line("FundHse", "", <<"FH", "-", "Mirae", " ", "Fund">>),
     Line("Currency", "USD", <<>>),
     Line("PayGroup", "", Amount1) >>

PageCont == << Line("Other", "", <<>>), Line("PayGroup", "", Amount2) >>

PageSummary ==
  << Line("Summary", "", <<>>),
     Line("TotalCcy", "USD", Amount1),
     Line("TotalCcy", "HKD", Amount2) >>

PageTexts == {PageFull, PageCont, PageSummary}

RECURSIVE SeqsUpTo(_, _)
SeqsUpTo(S, n) ==
  IF n = 0 THEN {<<>>}
  ELSE SeqsUpTo(S, n - 1) \cup
       {Append(q, e) : q \in {r \in SeqsUpTo(S, n - 1) : Len(r) = n - 1}, e \in S}

\* The uploaded documents: one to MaxPages pages.
Documents == SeqsUpTo(PageTexts, MaxPages) \ {<<>>}

RecWebullSGD ==
  Dict(Record(Str(<<"Webull", " ", "Securities">>), Str(<<"Webull">>),
              Str(<<"SGD">>), Str(<<"7", ".", "5", "0">>), Str(<<"HIGH">>)))

RecNoAmount ==
  Dict(Record(NoneVal, Str(<<"Gao", "/", "Teng">>),
              Str(<<"HKD">>), Str(<<"N", "/", "A">>), Str(<<"LOW">>)))

RecBadName ==
  Dict(Record(NoneVal, Num(<<"7">>), Str(<<"USD">>), Str(Amount2), Str(<<"HIGH">>)))

RecPartial ==
  Dict(Record(Str(<<"FH", "-", "iFund">>), NoneVal, Str(<<"EUR">>), NoneVal, NoneVal))

RecNoSimplified ==
  Dict(Record(Str(<<"FH", "-", "iFund">>), NoneVal, Str(<<"EUR">>),
              Str(<<"5", ".", "0", "0">>), Str(<<"HIGH">>)))

OracleOutcomes ==
  { Raised, NoText,
    Str(<<Tok("junk")>>),
    Str(<<Tok(FENCE), Tok("json"), Tok("\n"), RecWebullSGD, Tok("\n"), Tok(FENCE)>>),
    Str(<<List(<<Str(<<>>), RecNoAmount>>)>>),
    Str(<<RecBadName>>),
    Str(<<RecPartial, Tok("\n")>>),
    Str(<<RecNoSimplified>>) }

Dates == <<"240531", "240601">>

\* max_retries of create_draft_email
MaxRetries == 3

(***************************************************************************)
(* State.                                                                  *)
(***************************************************************************)
VARIABLES
  pc,               \* the statement the script is at
  runs,             \* number of processing runs started from the UI
  today,            \* index in Dates of the current date, counted from the start of the run
  processed_files,  \* st.session_state.processed_files
  uploaded_file,    \* the uploaded document: its page texts
  start_sequence,
  temp_exists,      \* the transient input copy exists in TEMP_DIR
  doc_handle,       \* the traversal handle: "unopened", "open", "closed"
  render_open,      \* per-page handles of convert_pdf_to_image opened and not closed
  generated_files,
  sequence_number,
  context,
  page_number,
  page_text,
  page_image,       \* TRUE: an image, FALSE: None
  response,         \* the outcome of the oracle call for this page
  ai_results,
  filename,
  aborted,          \* the handler of line 343 ran
  result,           \* what process_pdf returned
  service,          \* get_gmail_service returned a service
  rejected,         \* a request to create a draft raised in this run
  file_idx,         \* position of main's loop over generated_files
  attempt,          \* attempt of create_draft_email
  drafts,           \* the drafts created by this run: their attachments
  lost,             \* requests of this run that raised after the service created the draft
  reported,         \* what progress_bar.progress was given in this run: k for k/total_pages
  call,             \* a helper called on its own: the function and its arguments
  ret               \* what that call returned

session == <<runs, today, processed_files>>
inputs == <<uploaded_file, start_sequence>>
handles == <<temp_exists, doc_handle, render_open>>
locals == <<generated_files, sequence_number, context, page_number, page_text,
            page_image, response, ai_results, filename>>
returned == <<aborted, result>>
email == <<service, rejected, file_idx, attempt, drafts, lost>>
unit == <<call, ret>>
vars == <<pc, session, inputs, handles, locals, returned, email, reported, unit>>

total_pages == Len(uploaded_file)

\* no helper is called on its own
NoCall == [fn |-> "none", args |-> <<>>]

\* the call has not returned
NotReturned == [t |-> "pending", v |-> <<>>]

\* the script before the button is pressed
Constructed ==
  /\ pc = "idle"
  /\ runs = 0
  /\ today = 1
  /\ processed_files = <<>>
  /\ uploaded_file = <<>>
  /\ start_sequence = 1
  /\ temp_exists = FALSE
  /\ doc_handle = "unopened"
  /\ render_open = 0
  /\ generated_files = <<>>
  /\ sequence_number = 1
  /\ context = EmptyContext
  /\ page_number = 0
  /\ page_text = <<>>
  /\ page_image = FALSE
  /\ response = NoText
  /\ ai_results = NoneVal
  /\ filename = <<>>
  /\ aborted = FALSE
  /\ result = <<>>
  /\ service = FALSE
  /\ rejected = FALSE
  /\ file_idx = 0
  /\ attempt = 0
  /\ drafts = <<>>
  /\ lost = 0
  /\ reported = <<>>

Init ==
  /\ Constructed
  /\ call = NoCall
  /\ ret = NotReturned

(***************************************************************************)
(* main.py: the button is pressed with an uploaded file (lines 38-53).     *)
(***************************************************************************)
\* the button is pressed with one of the documents uploaded
Press(documents) ==
  /\ pc = "idle"
  /\ runs' = runs + 1
  /\ \E d \in documents : uploaded_file' = d
  /\ \E n \in 1..MaxStart : start_sequence' = n
  /\ today' = 1
  /\ generated_files' = <<>>
  /\ temp_exists' = FALSE
  /\ doc_handle' = "unopened"
  /\ render_open' = 0
  /\ aborted' = FALSE
  /\ result' = <<>>
  /\ service' = FALSE
  /\ rejected' = FALSE
  /\ file_idx' = 0
  /\ attempt' = 0
  /\ drafts' = <<>>
  /\ lost' = 0
  /\ reported' = <<>>
  /\ pc' = "copy"
  /\ UNCHANGED <<processed_files, sequence_number, context,
                 page_number, page_text, page_image, response, ai_results, filename>>
  /\ UNCHANGED unit

StartRun == Press(Documents)

\* the first press of the button in the session
Click ==
  /\ runs = 0
  /\ StartRun

\* a later press of the button: Streamlit runs the script again
Rerun ==
  /\ runs >= 1
  /\ runs < MaxRuns
  /\ StartRun

(***************************************************************************)
(* split.py: process_pdf.                                                  *)
(***************************************************************************)
\* An exception reaches the handler of line 343: the run returns [].
Abort ==
  /\ aborted' = TRUE
  /\ pc' = "finally"

\* lines 251-253: the upload is copied to TEMP_DIR
CopyUpload ==
  /\ pc = "copy"
  /\ \/ /\ temp_exists' = TRUE
        /\ pc' = "open"
        /\ UNCHANGED aborted
     \/ \* open() or write() raises; the file may have been created
        /\ temp_exists' \in BOOLEAN
        /\ Abort
  /\ UNCHANGED <<session, inputs, doc_handle, render_open, locals,
                 result, email>>
  /\ UNCHANGED unit
  /\ UNCHANGED reported

\* the counter starts at 1 whatever the caller supplied
InitialSequence_One(start) == 1

\* line 258
InitialSequence(start) == start

\* lines 256-262
OpenDocument ==
  /\ pc = "open"
  /\ \/ \* fitz.open raises
        /\ Abort
        /\ UNCHANGED <<doc_handle, locals>>
     \/ \* fitz.open succeeds, PdfReader raises
        /\ doc_handle' = "open"
        /\ Abort
        /\ UNCHANGED locals
     \/ /\ doc_handle' = "open"
        /\ sequence_number' = InitialSequence(start_sequence)
        /\ context' = EmptyContext
        /\ page_number' = 0
        /\ pc' = "progress"
        /\ UNCHANGED <<aborted, generated_files, page_text, page_image, response,
                       ai_results, filename>>
  /\ UNCHANGED <<session, inputs, temp_exists, render_open, result, email>>
  /\ UNCHANGED unit
  /\ UNCHANGED reported

\* The outcomes of a call of progress_bar.progress with the text argument,
\* retried without it on TypeError.
ProgressOutcomes == {"ok", "retry_ok", "retry_raises", "raises"}

ProgressRaises(outcome) == outcome \in {"retry_raises", "raises"}

\* lines 264-270: the head of the loop and the progress report of the page
ReportProgress ==
  /\ pc = "progress"
  /\ page_number < total_pages
  /\ \E outcome \in ProgressOutcomes :
       IF ProgressRaises(outcome)
       THEN Abort /\ UNCHANGED reported
       ELSE /\ reported' = Append(reported, page_number + 1)
            /\ pc' = "text"
            /\ UNCHANGED aborted
  /\ UNCHANGED <<session, inputs, handles, locals, result, email>>
  /\ UNCHANGED unit

\* lines 272-273
GetText ==
  /\ pc = "text"
  /\ \/ /\ page_text' = uploaded_file[page_number + 1]
        /\ pc' = "classify"
        /\ UNCHANGED aborted
     \/ \* doc[page_number] or get_text raises
        /\ Abort
        /\ UNCHANGED page_text
  /\ UNCHANGED <<session, inputs, handles, generated_files, sequence_number, context,
                 page_number, page_image, response, ai_results, filename, result, email>>
  /\ UNCHANGED unit
  /\ UNCHANGED reported

\* continue: the next iteration of the loop, or the end of the loop
NextPage ==
  /\ page_number' = page_number + 1
  /\ pc' = IF page_number + 1 < total_pages THEN "progress" ELSE "close"
  /\ page_text' = <<>>
  /\ page_image' = FALSE
  /\ response' = NoText
  /\ ai_results' = NoneVal
  /\ filename' = <<>>

\* a summary page takes a sequence number
Classify_ConsumesSeq ==
  /\ pc = "classify"
  /\ IF is_summary_page(page_text)
     THEN /\ NextPage
          /\ sequence_number' = sequence_number + 1
     ELSE /\ pc' = "render"
          /\ UNCHANGED <<page_number, page_text, page_image, response, ai_results,
                         filename, sequence_number>>
  /\ UNCHANGED <<session, inputs, handles, generated_files, context, returned, email>>
  /\ UNCHANGED unit
  /\ UNCHANGED reported

\* lines 276-277
Classify ==
  /\ pc = "classify"
  /\ IF is_summary_page(page_text)
     THEN NextPage
     ELSE /\ pc' = "render"
          /\ UNCHANGED <<page_number, page_text, page_image, response, ai_results, filename>>
  /\ UNCHANGED <<session, inputs, handles, generated_files, sequence_number, context,
                 returned, email>>
  /\ UNCHANGED unit
  /\ UNCHANGED reported

\* line 280, lines 113-125: convert_pdf_to_image
Render ==
  /\ pc = "render"
  /\ \/ \* the page is rendered: the handle is opened (line 115) and closed (line 121)
        /\ page_image' = TRUE
        /\ UNCHANGED render_open
     \/ \* fitz.open raises, or Image.open raises after the handle was closed
        /\ page_image' = FALSE
        /\ UNCHANGED render_open
     \/ \* rendering raises after the handle was opened: line 121 is not reached
        /\ render_open' = render_open + 1
        /\ page_image' = FALSE
  /\ pc' = "oracle"
  /\ UNCHANGED <<session, inputs, temp_exists, doc_handle, generated_files,
                 sequence_number, context, page_number, page_text, response,
                 ai_results, filename, returned, email>>
  /\ UNCHANGED unit
  /\ UNCHANGED reported

\* lines 281-282
Oracle ==
  /\ pc = "oracle"
  /\ IF page_image
     THEN \E outcome \in OracleOutcomes :
            /\ response' = outcome
            /\ ai_results' = normalize_ai_results(get_gemini_response(outcome))
     ELSE /\ response' = NoText
          /\ ai_results' = normalize_ai_results(NoneVal)
  /\ pc' = "check"
  /\ UNCHANGED <<session, inputs, handles, generated_files, sequence_number, context,
                 page_number, page_text, page_image, filename, returned, email>>
  /\ UNCHANGED unit
  /\ UNCHANGED reported

\* a page without an oracle record is skipped, the fallback is not tried
Check_SkipsOnMiss ==
  /\ pc = "check"
  /\ IF ~Truthy(ai_results)
     THEN /\ NextPage
          /\ UNCHANGED <<generated_files, sequence_number, context>>
     ELSE /\ pc' = IF Incomplete(ai_results) THEN "fallback" ELSE "accept"
          /\ UNCHANGED locals
  /\ UNCHANGED <<session, inputs, handles, returned, email>>
  /\ UNCHANGED unit
  /\ UNCHANGED reported

\* a rendered page without an oracle record is sent to the oracle again
Check_RetriesOnMiss ==
  /\ pc = "check"
  /\ pc' = IF page_image /\ ~Truthy(ai_results) THEN "oracle"
           ELSE IF Incomplete(ai_results) THEN "fallback" ELSE "accept"
  /\ UNCHANGED <<session, inputs, handles, locals, returned, email>>
  /\ UNCHANGED unit
  /\ UNCHANGED reported

\* lines 285-287
Check ==
  /\ pc = "check"
  /\ pc' = IF Incomplete(ai_results) THEN "fallback" ELSE "accept"
  /\ UNCHANGED <<session, inputs, handles, locals, returned, email>>
  /\ UNCHANGED unit
  /\ UNCHANGED reported

\* the fields of the incomplete oracle record fill the record of the fallback
Fallback_Merges ==
  /\ pc = "fallback"
  /\ LET rec == fallback_extract_from_text(page_text, context)
     IN IF ~Truthy(rec)
        THEN NextPage
        ELSE /\ ai_results' =
                  IF ai_results.t = "dict"
                  THEN Dict([f \in DOMAIN rec.v |-> Or(ai_results.v[f], rec.v[f])])
                  ELSE rec
             /\ pc' = "accept"
             /\ UNCHANGED <<page_number, page_text, page_image, response, filename>>
  /\ UNCHANGED <<session, inputs, handles, generated_files, sequence_number, context,
                 returned, email>>
  /\ UNCHANGED unit
  /\ UNCHANGED reported

\* lines 288-292
Fallback ==
  /\ pc = "fallback"
  /\ LET rec == fallback_extract_from_text(page_text, context)
     IN IF ~Truthy(rec)
        THEN NextPage
        ELSE /\ ai_results' = rec
             /\ pc' = "accept"
             /\ UNCHANGED <<page_number, page_text, page_image, response, filename>>
  /\ UNCHANGED <<session, inputs, handles, generated_files, sequence_number, context,
                 returned, email>>
  /\ UNCHANGED unit
  /\ UNCHANGED reported

\* the date changes while the run is at the page
Midnight ==
  /\ pc = "accept"
  /\ today < Len(Dates)
  /\ today' = today + 1
  /\ UNCHANGED <<pc, runs, processed_files, inputs, handles, locals, returned, email>>
  /\ UNCHANGED unit
  /\ UNCHANGED reported

\* lines 295-307
Accept ==
  /\ pc = "accept"
  /\ context' = UpdateContext(context, ai_results.v)
  /\ LET chosen_name == ChosenName(ai_results.v)
         currency == ai_results.v.currency
         payment_total == ai_results.v.payment_total
     IN IF ChosenNameRaises(ai_results.v)
        THEN Abort /\ UNCHANGED <<filename, page_number, page_text, page_image, response, ai_results>>
        ELSE IF Truthy(chosen_name) /\ Truthy(currency) /\ Truthy(payment_total)
             THEN IF chosen_name.t # "str"
                  THEN \* re.sub raises TypeError
                       Abort /\ UNCHANGED <<filename, page_number, page_text, page_image,
                                            response, ai_results>>
                  ELSE /\ filename' = FileName(Dates[today], sequence_number,
                                               chosen_name.v, currency)
                       /\ pc' = "write"
                       /\ UNCHANGED <<aborted, page_number, page_text, page_image,
                                      response, ai_results>>
             ELSE NextPage /\ UNCHANGED aborted
  /\ UNCHANGED <<session, inputs, handles, generated_files, sequence_number, result, email>>
  /\ UNCHANGED unit
  /\ UNCHANGED reported

\* lines 310-317
WritePage ==
  /\ pc = "write"
  /\ \/ /\ pc' = "append"
        /\ UNCHANGED <<page_number, page_text, page_image, response, ai_results, filename>>
     \/ \* the writer raises: the page is skipped
        NextPage
  /\ UNCHANGED <<session, inputs, handles, generated_files, sequence_number, context,
                 returned, email>>
  /\ UNCHANGED unit
  /\ UNCHANGED reported

OutputFile(name, content, currency, payment_total) ==
  [filename |-> name, content |-> content, currency |-> currency,
   payment_total |-> payment_total]

\* lines 319-334
AppendFile ==
  /\ pc = "append"
  /\ \/ /\ generated_files' =
             Append(generated_files,
                    OutputFile(filename, page_text, ai_results.v.currency,
                               PayNum(ai_results.v.payment_total)))
        /\ sequence_number' = sequence_number + 1
        /\ NextPage
        /\ UNCHANGED aborted
     \/ \* reading the file back raises
        /\ Abort
        /\ UNCHANGED <<generated_files, sequence_number, page_number, page_text,
                       page_image, response, ai_results, filename>>
  /\ UNCHANGED <<session, inputs, handles, context, result, email>>
  /\ UNCHANGED unit
  /\ UNCHANGED reported

\* lines 336-341
CloseDocument ==
  /\ pc = "close"
  /\ doc_handle' = "closed"
  /\ \E outcome \in ProgressOutcomes :
       IF ProgressRaises(outcome)
       THEN aborted' = TRUE /\ UNCHANGED reported
       ELSE reported' = Append(reported, total_pages) /\ UNCHANGED aborted
  /\ pc' = "finally"
  /\ UNCHANGED <<session, inputs, temp_exists, render_open, locals,
                 result, email>>
  /\ UNCHANGED unit

\* what process_pdf hands back: lines 341 and 345
ReturnValue(was_aborted, files) == IF was_aborted THEN <<>> ELSE files

\* lines 346-351 and the return to main, where the locals of process_pdf end
Finally ==
  /\ pc = "finally"
  /\ \/ temp_exists' = FALSE
     \/ \* os.remove raises because the file is still in use, a handle on it
        \* being open: the warning of line 351
        /\ temp_exists
        /\ doc_handle = "open" \/ render_open > 0
        /\ temp_exists' = TRUE
  /\ result' = ReturnValue(aborted, generated_files)
  /\ pc' = "returned"
  /\ sequence_number' = 1
  /\ context' = EmptyContext
  /\ page_number' = 0
  /\ page_text' = <<>>
  /\ page_image' = FALSE
  /\ response' = NoText
  /\ ai_results' = NoneVal
  /\ filename' = <<>>
  /\ UNCHANGED <<runs, today, processed_files, inputs, doc_handle, render_open, generated_files, aborted, email>>
  /\ UNCHANGED unit
  /\ UNCHANGED reported

(***************************************************************************)
(* main.py: main after process_pdf returned; email_draft.py.               *)
(***************************************************************************)
\* lines 54-56
HandleResult ==
  /\ pc = "returned"
  /\ IF result # <<>>
     THEN /\ processed_files' = result
          /\ pc' = "service"
     ELSE /\ pc' = "idle"
          /\ UNCHANGED processed_files
  /\ UNCHANGED <<runs, today, inputs, handles, locals, returned, email>>
  /\ UNCHANGED unit
  /\ UNCHANGED reported

\* lines 59-62
GetService ==
  /\ pc = "service"
  /\ \/ /\ service' = TRUE
        /\ file_idx' = 1
        /\ pc' = "template"
     \/ \* get_gmail_service returns None
        /\ pc' = "idle"
        /\ UNCHANGED <<service, file_idx>>
  /\ UNCHANGED <<session, inputs, handles, locals, returned, rejected, attempt, drafts, lost>>
  /\ UNCHANGED unit
  /\ UNCHANGED reported

\* the next iteration of the loop of line 65, or its end
NextFile ==
  /\ file_idx' = file_idx + 1
  /\ attempt' = 0
  /\ pc' = IF file_idx + 1 <= Len(result) THEN "template" ELSE "idle"

\* email_draft.py line 98: float(value) raises on None
TemplateRaises(value) == value.t \notin {"num", "str"}

\* main.py lines 66-76 and 90-91, email_draft.py lines 93-131
Template ==
  /\ pc = "template"
  /\ IF TemplateRaises(result[file_idx].payment_total)
     THEN NextFile
     ELSE /\ pc' = "draft"
          /\ attempt' = 0
          /\ UNCHANGED file_idx
  /\ UNCHANGED <<session, inputs, handles, locals, returned, service, rejected, drafts, lost>>
  /\ UNCHANGED unit
  /\ UNCHANGED reported

\* the message of lines 137-160: attached is FALSE when attaching the file
\* raised and the handler of line 158 dropped it
Draft(file_info, attached) ==
  [attachments |-> IF attached THEN <<file_info.filename>> ELSE <<>>,
   settled |-> <<file_info.currency, file_info.payment_total>>]

\* main.py lines 79-88, email_draft.py lines 133-177: one attempt of
\* create_draft_email
CreateDraft ==
  /\ pc = "draft"
  /\ \/ \* the service creates the draft: line 169 returns its id
        /\ \E attached \in BOOLEAN :
             drafts' = Append(drafts, Draft(result[file_idx], attached))
        /\ NextFile
        /\ UNCHANGED <<rejected, lost>>
     \/ \* the request raises: the handler of line 171 retries or gives up.
        \* created: the service had created the draft, with its attachment,
        \* when the request raised (the response was lost, or carried no id
        \* for line 169)
        /\ \E created \in {FALSE, lost < MaxLost} :
             IF created
             THEN /\ drafts' = Append(drafts, Draft(result[file_idx], TRUE))
                  /\ lost' = lost + 1
             ELSE UNCHANGED <<drafts, lost>>
        /\ rejected' = TRUE
        /\ IF attempt < MaxRetries - 1
           THEN /\ attempt' = attempt + 1
                /\ UNCHANGED <<pc, file_idx>>
           ELSE NextFile
  /\ UNCHANGED <<session, inputs, handles, locals, returned, service>>
  /\ UNCHANGED unit
  /\ UNCHANGED reported

\* main.py lines 22-28: the entries of the archive, in order
create_zip_file(files) ==
  [i \in 1..Len(files) |-> [name |-> files[i].filename, data |-> files[i].content]]

\* main.py lines 108-114: the files grouped by their currency
currency_files(files) ==
  [curr \in {files[i].currency : i \in 1..Len(files)} |->
     SelectSeq(files, LAMBDA file : file.currency = curr)]

\* main.py lines 94-144: what the download section offers when the script
\* renders it: nothing while processed_files is empty
all_files_zip ==
  IF processed_files # <<>> THEN create_zip_file(processed_files) ELSE <<>>

download_by_currency ==
  IF processed_files # <<>> THEN currency_files(processed_files) ELSE <<>>

Next ==
  \/ Click
  \/ CopyUpload
  \/ OpenDocument
  \/ ReportProgress
  \/ GetText
  \/ Classify
  \/ Render
  \/ Oracle
  \/ Check
  \/ Fallback
  \/ Midnight
  \/ Accept
  \/ WritePage
  \/ AppendFile
  \/ CloseDocument
  \/ Finally
  \/ HandleResult
  \/ GetService
  \/ Template
  \/ CreateDraft

\* One run of the script: the button is pressed once.
Spec == Init /\ [][Next]_vars

\* A session: the button is pressed up to MaxRuns times.
NextSession == Next \/ Rerun

SpecSession == Init /\ [][NextSession]_vars

(***************************************************************************)
(* One run on a three-page document: a page with its header lines, a       *)
(* continuation page, a summary page.  The oracle gives no record and no   *)
(* other collaborator fails.                                               *)
(***************************************************************************)
ScenarioDoc == <<PageFull, PageCont, PageSummary>>

ClickScenario ==
  /\ runs = 0
  /\ Press({ScenarioDoc})

\* what the collaborators do in the step: the oracle gives no record (the page
\* was not rendered, the call raised, the response had no text or no JSON),
\* nothing raises to the handler of line 343, the page is written
Quiet ==
  /\ ~aborted'
  /\ pc = "oracle" =>
       \/ ~page_image
       \/ response'.t \in {"exception", "empty"}
       \/ response'.t = "str" /\ ~JsonParses(StripFences(response'.v))
  /\ pc = "write" => pc' = "append"

NextScenario ==
  \/ ClickScenario
  \/ CopyUpload /\ Quiet
  \/ OpenDocument /\ Quiet
  \/ ReportProgress /\ Quiet
  \/ GetText /\ Quiet
  \/ Classify /\ Quiet
  \/ Render /\ Quiet
  \/ Oracle /\ Quiet
  \/ Check /\ Quiet
  \/ Fallback /\ Quiet
  \/ Accept /\ Quiet
  \/ WritePage /\ Quiet
  \/ AppendFile /\ Quiet
  \/ CloseDocument /\ Quiet
  \/ Finally /\ Quiet

SpecScenario == Init /\ [][NextScenario]_vars

(***************************************************************************)
(* The helpers of split.py called on their own: the arguments are drawn    *)
(* at the start, the call returns once.                                    *)
(***************************************************************************)
Call(fn, args) == [fn |-> fn, args |-> args]

Bool(b) == [t |-> "bool", v |-> b]

\* the concatenation of a sequence of strings
RECURSIVE Concat(_)
Concat(chunks) == IF chunks = <<>> THEN <<>> ELSE Head(chunks) \o Concat(Tail(chunks))

\* Names: up to MaxChunks pieces, each a key of the table or other text.
NameChunks ==
  {SPECIAL_MAP[i].key : i \in 1..Len(SPECIAL_MAP)} \cup {<<"-">>, <<" ">>, <<"Acme">>}

UnitNames == {Concat(q) : q \in SeqsUpTo(NameChunks, MaxChunks)}

\* Texts handed to is_summary_page: up to MaxLines lines.
SummaryLines ==
  { Line("Summary", "", <<>>), Line("GrandTotal", "", <<>>), Line("RptHeader", "", <<>>),
    Line("Total", "", <<>>),
    Line("TotalCcy", "USD", Amount1), Line("TotalCcy", "SGD", Amount1),
    Line("TotalCcy", "HKD", <<"1", "2">>),
    Line("PayGroup", "", Amount2), Line("Other", "", <<>>) }

SummaryTexts == SeqsUpTo(SummaryLines, MaxLines)

\* Texts and contexts handed to fallback_extract_from_text.
FallbackLines ==
  { Line("Currency", "HKD", <<>>), Line("Currency", "USD", <<>>),
    Line("FundHse", "", <<"FH", "-", "Mirae", " ", "Fund">>), Line("FundHse", "", <<" ">>),
    Line("PayGroup", "", Amount1), Line("PayGroup", "", Amount2),
    Line("PayGroup", "", <<>>) }

FallbackTexts == SeqsUpTo(FallbackLines, MaxLines)

ContextOf(full, simp, cur, pay) ==
  [full_name |-> full, simplified_name |-> simp, currency |-> cur, payment_total |-> pay]

UnitContexts ==
  { ContextOf(NoneVal, NoneVal, NoneVal, NoneVal),
    ContextOf(Str(<<"Webull", " ", "Securities">>), Str(<<"Webull">>), Str(<<"JPY">>),
              Str(Amount1)),
    ContextOf(NoneVal, NoneVal, Str(<<"EUR">>), Str(Amount1)),
    ContextOf(NoneVal, Str(<<"Webull">>), NoneVal, NoneVal) }

\* The values a JSON text can parse to.
JsonValues ==
  { RecWebullSGD, RecPartial, NoneVal, Num(<<"7">>),
    List(<<>>),
    List(<<Num(<<"7">>), RecWebullSGD, RecPartial>>),
    List(<<List(<<RecWebullSGD>>)>>),
    Str(<<RecPartial>>),
    Str(<<Tok("junk")>>) }

\* The language tags after an opening fence: none, json, another one.
FenceTags == {<<>>, <<Tok("json")>>, <<Tok("python")>>}

\* s between an opening fence with a tag and a closing fence
Wrap(tag, s) ==
  <<Tok(FENCE)>> \o tag \o <<Tok("\n")>> \o s \o <<Tok("\n"), Tok(FENCE)>>

\* The texts a response can be.
UnitTexts ==
  {<<>>, <<Tok("junk")>>}
    \cup {<<j>> : j \in JsonValues}
    \cup {<<Tok(" "), j, Tok("\n")>> : j \in JsonValues}
    \cup {<<j, Tok(" "), j>> : j \in JsonValues}
    \cup {Wrap(tag, <<j>>) : tag \in FenceTags, j \in JsonValues}
    \cup {<<Tok(FENCE), Tok("json"), Tok("\n"), j>> : j \in JsonValues}
    \cup {<<Tok("junk"), Tok("\n")>> \o Wrap(<<Tok("json")>>, <<j>>) : j \in JsonValues}

\* What normalize_ai_results is handed: None, a parsed value, a text.
UnitRaws == JsonValues \cup {Str(text) : text \in UnitTexts}

Pending(fn) == call.fn = fn /\ ret = NotReturned

Returned(fn) == call.fn = fn /\ ret # NotReturned

Idle == UNCHANGED <<pc, session, inputs, handles, locals, returned, email, reported, call>>

Call_simplify_from_full ==
  /\ Pending("simplify_from_full")
  /\ ret' = Str(simplify_from_full(call.args[1]))
  /\ Idle

Call_is_summary_page ==
  /\ Pending("is_summary_page")
  /\ ret' = Bool(is_summary_page(call.args[1]))
  /\ Idle

Call_fallback_extract_from_text ==
  /\ Pending("fallback_extract_from_text")
  /\ ret' = fallback_extract_from_text(call.args[1], call.args[2])
  /\ Idle

Call_normalize_ai_results ==
  /\ Pending("normalize_ai_results")
  /\ ret' = normalize_ai_results(call.args[1])
  /\ Idle

InitUnit ==
  /\ Constructed
  /\ ret = NotReturned
  /\ \/ \E name \in UnitNames : call = Call("simplify_from_full", <<name>>)
     \/ \E text \in SummaryTexts : call = Call("is_summary_page", <<text>>)
     \/ \E text \in FallbackTexts : \E ctx \in UnitContexts :
          call = Call("fallback_extract_from_text", <<text, ctx>>)
     \/ \E raw \in UnitRaws : call = Call("normalize_ai_results", <<raw>>)

NextUnit ==
  \/ Call_simplify_from_full
  \/ Call_is_summary_page
  \/ Call_fallback_extract_from_text
  \/ Call_normalize_ai_results

SpecUnit == InitUnit /\ [][NextUnit]_vars

(***************************************************************************)
(* Properties.                                                             *)
(***************************************************************************)
DigitVal(d) == CHOOSE n \in 0..9 : Digit(n) = d

RECURSIVE ToNat(_)
ToNat(s) ==
  IF s = <<>> THEN 0 ELSE 10 * ToNat(SubSeq(s, 1, Len(s) - 1)) + DigitVal(s[Len(s)])

\* the sequence number embedded in a file name: the digits between the date
\* and the first underscore
EmbeddedSeq(name) == ToNat(SubSeq(name, 4, FirstIndex(name, "_") - 1))

\* the statements of process_pdf that handle one page, after its progress report
PageSteps == {"text", "classify", "render", "oracle", "check", "fallback", "accept",
              "write", "append"}

\* the statements of process_pdf from the head of the loop to its return
RunSteps == PageSteps \cup {"progress", "close", "finally"}

ContextFields == {"full_name", "simplified_name", "currency"}

\* C1: the sequence numbers embedded in the emitted files, in emission order,
\* are start_sequence, start_sequence + 1, ... without gap or repeat, in the
\* list being built and in the list handed back; the counter is ahead of the
\* start value by the number of emitted files only, so a skipped page consumes
\* no number.
C1_SequenceContiguous ==
  /\ \A i \in 1..Len(generated_files) :
       EmbeddedSeq(generated_files[i].filename) = start_sequence + i - 1
  /\ \A i \in 1..Len(result) :
       EmbeddedSeq(result[i].filename) = start_sequence + i - 1
  /\ pc \in RunSteps \ {"finally"} =>
       sequence_number = start_sequence + Len(generated_files)

\* C1 witness: a run started at 2 returned two files.
C1_Witness == pc = "returned" /\ start_sequence = 2 /\ Len(result) = 2

\* C2: no statement that handles one page ends the run through the handler
\* of line 343.
C2_PageFailureNeverAborts == [][(pc \in PageSteps) => ~aborted']_vars

\* C3: when process_pdf has returned, the traversal handle is not left open,
\* no per-page handle is left open and the transient input copy is gone.
C3_HandlesReleased ==
  pc = "returned" => doc_handle # "open" /\ render_open = 0 /\ ~temp_exists

\* the oracle gave no record: no image, an exception, no text, or a text
\* that json.loads rejects
OracleMiss ==
  \/ ~page_image
  \/ response.t \in {"exception", "empty"}
  \/ response.t = "str" /\ ~JsonParses(StripFences(response.v))

\* C4: after a render failure or a failed oracle call the record is absent,
\* and the next statement of the run is the fallback on the same page, with
\* the same text and context, the run not being aborted.
C4_MissLeadsToFallback ==
  [][(pc = "check" /\ OracleMiss) =>
       /\ ~Truthy(ai_results)
       /\ pc' = "fallback"
       /\ ~aborted'
       /\ page_number' = page_number
       /\ page_text' = uploaded_file[page_number + 1]
       /\ context' = context]_vars

\* C4 witness: the second page was accepted through the fallback after the
\* oracle call raised.
C4_Witness ==
  /\ pc = "accept"
  /\ page_number = 1
  /\ response = Raised
  /\ ai_results = fallback_extract_from_text(page_text, context)

\* C5: no progress report, of a page or of the completion, ends the run
\* through the handler of line 343.
C5_ProgressFailureNeverAborts == [][(pc \in {"progress", "close"}) => ~aborted']_vars

\* the page at hand is skipped: it is a summary page, or the fallback, which
\* runs when the oracle record is incomplete, finds no complete record
SkipsPage ==
  \/ pc = "classify" /\ is_summary_page(page_text)
  \/ pc = "fallback" /\ ~Truthy(fallback_extract_from_text(page_text, context))

\* C6: a skipped page leaves the context, the sequence counter and the output
\* list as they are, and the run goes on with the next page.
C6_SkipChangesNothing ==
  [][SkipsPage =>
       /\ context' = context
       /\ sequence_number' = sequence_number
       /\ generated_files' = generated_files
       /\ page_number' = page_number + 1
       /\ pc' = IF page_number + 1 < total_pages THEN "progress" ELSE "close"
       /\ ~aborted']_vars

\* C6 witness: the second page, a summary page, was skipped after the first
\* page had filled the context and produced a file.
C6_Witness ==
  /\ pc = "close"
  /\ page_number = 2
  /\ is_summary_page(uploaded_file[2])
  /\ Len(generated_files) = 1
  /\ Truthy(context.currency)

\* C7: the context is empty when the traversal starts; inside the run a field
\* that holds a value keeps holding one, and a field changes only at the
\* acceptance of a record, to the non-empty value of that record.
C7_ContextNeverCleared ==
  [][/\ (pc = "open" /\ pc' = "progress") => context' = EmptyContext
     /\ (pc \in RunSteps /\ pc' \in RunSteps) =>
          \A f \in ContextFields :
            /\ Truthy(context[f]) => Truthy(context'[f])
            /\ context'[f] # context[f] =>
                 /\ pc = "accept"
                 /\ Truthy(context'[f])
                 /\ context'[f] = ai_results.v[f]]_vars

\* C7 witness: the currency of the context was replaced by that of a later record.
C7_Witness ==
  /\ pc = "write"
  /\ page_number = 1
  /\ Len(generated_files) = 1
  /\ Truthy(context.currency)
  /\ context.currency # generated_files[1].currency

\* C8: when main has gone through the files with a service that initialised
\* and rejected no request, there is one draft per returned file, in order,
\* each attaching that file.
C8_OneDraftPerFile ==
  (pc = "idle" /\ service /\ ~rejected) =>
    /\ Len(drafts) = Len(result)
    /\ \A i \in 1..Len(result) : drafts[i].attachments = <<result[i].filename>>

\* C9: what an aborted run hands back differs from what a run that completed
\* without any qualifying page hands back.
C9_AbortDistinguishable ==
  (pc = "returned" /\ aborted) => result # ReturnValue(FALSE, <<>>)

\* C10: every emitted file has a currency of the fixed set, and is emitted
\* from a record whose label and payment total are not empty.
C10_OutputFileFields ==
  /\ pc = "append" =>
       Truthy(ChosenName(ai_results.v)) /\ Truthy(ai_results.v.payment_total)
  /\ \A i \in 1..Len(generated_files) :
       generated_files[i].currency \in {Str(<<c>>) : c \in CURRENCIES}

\* the entries of the override table whose key is a substring of name
KeysIn(name) ==
  {i \in 1..Len(SPECIAL_MAP) :
     \E a \in 0..(Len(name) - Len(SPECIAL_MAP[i].key)) :
       \A k \in 1..Len(SPECIAL_MAP[i].key) : name[a + k] = SPECIAL_MAP[i].key[k]}

\* name without the blanks at its two ends
Trimmed(name) ==
  IF \A i \in 1..Len(name) : name[i] \in {" ", "\n"} THEN <<>>
  ELSE LET a == CHOOSE i \in 1..Len(name) :
                  name[i] \notin {" ", "\n"} /\ \A j \in 1..(i - 1) : name[j] \in {" ", "\n"}
           b == CHOOSE i \in 1..Len(name) :
                  name[i] \notin {" ", "\n"} /\ \A j \in (i + 1)..Len(name) : name[j] \in {" ", "\n"}
       IN SubSeq(name, a, b)

\* C16: simplify_from_full returns a string for every string: the empty one
\* for the empty name; else the label of the first entry of the table, in
\* table order, whose key occurs in the name; else the trimmed text before
\* the first "-", the whole trimmed name when there is none.
C16_SimplifyFromFull ==
  Returned("simplify_from_full") =>
    LET name == call.args[1]
        dashes == {i \in 1..Len(name) : name[i] = "-"}
    IN /\ ret.t = "str"
       /\ name = <<>> => ret.v = <<>>
       /\ KeysIn(name) # {} =>
            \E i \in KeysIn(name) :
              /\ \A j \in KeysIn(name) : i <= j
              /\ ret.v = SPECIAL_MAP[i].val
       /\ (KeysIn(name) = {} /\ dashes # {}) =>
            \E d \in dashes :
              /\ \A e \in dashes : d <= e
              /\ ret.v = Trimmed(SubSeq(name, 1, d - 1))
       /\ (KeysIn(name) = {} /\ dashes = {}) => ret.v = Trimmed(name)

\* C16 witness: a name holding, after other text, the key of entry 10 and then
\* the key of entry 2 was given the label of entry 2.
C16_Witness ==
  /\ Returned("simplify_from_full")
  /\ call.args[1] =
       <<"Acme">> \o SPECIAL_MAP[10].key \o SPECIAL_MAP[2].key
  /\ ret = Str(SPECIAL_MAP[2].val)

\* x starts with digits and commas, a point and two digits
StartsWithAmount(x) ==
  \E d \in 2..(Len(x) - 2) :
    /\ x[d] = "."
    /\ \A i \in 1..(d - 1) : x[i] \in DigitChars \cup {","}
    /\ x[d + 1] \in DigitChars
    /\ x[d + 2] \in DigitChars

\* that amount
LeadingAmount(x) == SubSeq(x, 1, (CHOOSE d \in 1..Len(x) : x[d] = "." /\ \A i \in 1..(d - 1) : x[i] # ".") + 2)

Least(S) == CHOOSE i \in S : \A j \in S : i <= j

\* the lines of a text that carry what the three patterns of the fallback look for
OwnCurrency(text) == {i \in 1..Len(text) : text[i].k = "Currency" /\ text[i].c \in CURRENCIES}
OwnFundHse(text) == {i \in 1..Len(text) : text[i].k = "FundHse" /\ text[i].x # <<>>}
OwnTotal(text) == {i \in 1..Len(text) : text[i].k = "PayGroup" /\ StartsWithAmount(text[i].x)}

\* the fields after inheritance from the context
NameAfter(text, ctx) ==
  IF OwnFundHse(text) # {}
  THEN Str(simplify_from_full(Trimmed(text[Least(OwnFundHse(text))].x)))
  ELSE ctx.simplified_name

CurrencyAfter(text, ctx) ==
  IF OwnCurrency(text) # {} THEN Str(<<text[Least(OwnCurrency(text))].c>>) ELSE ctx.currency

\* C11: fallback_extract_from_text returns a record exactly when, after
\* inheritance from the context, the simplified name, the currency and the
\* payment total are all non-empty, and None otherwise; the payment total of
\* a record is the amount of the first Payment Group ... Total line of the
\* page itself, whatever the context holds.
C11_FallbackRecordIffComplete ==
  Returned("fallback_extract_from_text") =>
    LET text == call.args[1]
        ctx == call.args[2]
    IN /\ ret.t = "dict" <=>
            /\ Truthy(NameAfter(text, ctx))
            /\ Truthy(CurrencyAfter(text, ctx))
            /\ OwnTotal(text) # {}
       /\ ret.t # "dict" => ret = NoneVal
       /\ ret.t = "dict" =>
            ret.v.payment_total = Str(LeadingAmount(text[Least(OwnTotal(text))].x))

\* C11 witness: None came back for a page without a total line although the
\* context held names, a currency and a payment total.
C11_Witness ==
  /\ Returned("fallback_extract_from_text")
  /\ call.args[1] = <<Line("PayGroup", "", <<>>)>>
  /\ Truthy(call.args[2].simplified_name)
  /\ Truthy(call.args[2].currency)
  /\ Truthy(call.args[2].payment_total)
  /\ ret = NoneVal

\* C12: in a record of fallback_extract_from_text the currency is the one of
\* the first Currency : line of the page, the one of the context when the
\* page has no such line; without a Fund Hse Settlement Inst : line the two
\* names are those of the context and the confidence is LOW, with one the full
\* name is the text of the first such line, the simplified name is
\* simplify_from_full of it and the confidence is MEDIUM.
C12_FallbackInheritance ==
  (Returned("fallback_extract_from_text") /\ ret.t = "dict") =>
    LET text == call.args[1]
        ctx == call.args[2]
        matched == Trimmed(text[Least(OwnFundHse(text))].x)
    IN /\ OwnCurrency(text) = {} => ret.v.currency = ctx.currency
       /\ OwnCurrency(text) # {} =>
            ret.v.currency = Str(<<text[Least(OwnCurrency(text))].c>>)
       /\ OwnFundHse(text) = {} =>
            /\ ret.v.full_name = ctx.full_name
            /\ ret.v.simplified_name = ctx.simplified_name
            /\ ret.v.confidence = Str(<<"LOW">>)
       /\ OwnFundHse(text) # {} =>
            /\ ret.v.full_name = Str(matched)
            /\ ret.v.simplified_name = Str(simplify_from_full(matched))
            /\ ret.v.confidence = Str(<<"MEDIUM">>)

\* C12 witness: a page with a total line only inherited the names and the
\* currency of the context, with confidence LOW.
C12_Witness ==
  /\ Returned("fallback_extract_from_text")
  /\ call.args[1] = <<Line("PayGroup", "", Amount2)>>
  /\ ret.t = "dict"
  /\ ret.v.currency = Str(<<"JPY">>)
  /\ ret.v.simplified_name = Str(<<"Webull">>)
  /\ ret.v.confidence = Str(<<"LOW">>)

\* the two rules of the classifier
RuleA(text) ==
  /\ \E i \in 1..Len(text) : text[i].k \in {"Summary", "GrandTotal", "RptHeader", "Total"}
  /\ \A i \in 1..Len(text) : text[i].k # "PayGroup"

RuleB(text) ==
  /\ \E i \in 1..Len(text) : text[i].k = "Summary"
  /\ \E i \in 1..Len(text) : text[i].c \in CURRENCIES
  /\ \E i, j \in 1..Len(text) :
       /\ i # j
       /\ \A l \in {i, j} :
            text[l].k = "TotalCcy" /\ text[l].c \in CURRENCIES /\ StartsWithAmount(text[l].x)

\* C13: is_summary_page returns true exactly when the first rule or the
\* second rule holds; a text with "Payment Group" is a summary only by the
\* second rule.
C13_SummaryRules ==
  Returned("is_summary_page") =>
    LET text == call.args[1]
    IN /\ ret = Bool(RuleA(text) \/ RuleB(text))
       /\ (ret = Bool(TRUE) /\ \E i \in 1..Len(text) : text[i].k = "PayGroup") => RuleB(text)

\* C13 witness: a text with "Payment Group", "Summary" and two currency total
\* lines was classified as a summary.
C13_Witness ==
  /\ Returned("is_summary_page")
  /\ \E i \in 1..Len(call.args[1]) : call.args[1][i].k = "PayGroup"
  /\ ret = Bool(TRUE)

\* the value a text parses to, None when it does not parse: the text, its
\* fences removed, is one JSON document with nothing but blanks around it
Parsed(text) ==
  LET body == StripFences(text)
      docs == {i \in 1..Len(body) : body[i].t # "tok"}
      blanks == {i \in 1..Len(body) : body[i].t = "tok" /\ body[i].v \in {" ", "\n"}}
  IN IF Cardinality(docs) = 1 /\ Cardinality(blanks) = Len(body) - 1
     THEN [ok |-> TRUE, value |-> body[Least(docs)]]
     ELSE [ok |-> FALSE, value |-> NoneVal]

\* the record of a raw shape, by the rules of the claim
RECURSIVE Shape(_)
Shape(raw) ==
  IF raw.t = "dict" THEN raw
  ELSE IF raw.t = "list"
       THEN LET objects == {i \in 1..Len(raw.v) : raw.v[i].t = "dict"}
            IN IF objects = {} THEN NoneVal ELSE raw.v[Least(objects)]
       ELSE IF raw.t = "str" /\ Parsed(raw.v).ok THEN Shape(Parsed(raw.v).value)
            ELSE NoneVal

\* C14: normalize_ai_results returns a structured object as it is; for a list
\* its first element that is a structured object, None when it has none; for
\* a text the result of the same rules on the value the text parses to;
\* None for a text that does not parse and for any other value.
C14_NormalizeShapes ==
  Returned("normalize_ai_results") => ret = Shape(call.args[1])

\* C14 witness: the text of a list whose second element is its first
\* structured object gave that element.
C14_Witness ==
  /\ Returned("normalize_ai_results")
  /\ call.args[1] = Str(<<List(<<Num(<<"7">>), RecWebullSGD, RecPartial>>)>>)
  /\ ret = RecWebullSGD

\* C15: a JSON text between an opening fence, with the tag json, with another
\* tag or with none, and a closing fence is normalized to what the text
\* itself is normalized to.
C15_FencesTransparent ==
  Returned("normalize_ai_results") =>
    \A tag \in FenceTags : \A j \in JsonValues :
      call.args[1] = Str(Wrap(tag, <<j>>)) => ret = normalize_ai_results(Str(<<j>>))

\* a label with each of the characters < > : " / \ | ? * replaced by _
Replaced(label) ==
  [i \in 1..Len(label) |->
     IF label[i] \in {"<", ">", ":", "\"", "/", "\\", "|", "?", "*"} THEN "_" ELSE label[i]]

\* a sequence number written with two digits at least
Padded(n) == IF n < 10 THEN <<"0", Digit(n)>> ELSE ToStr(n)

\* S<YYMMDD>-<SEQ>_<label>_<CURRENCY>-order details.pdf
NameForm(date, seq, label, currency) ==
  <<"S", date, "-">> \o Padded(seq) \o <<"_">> \o Replaced(label) \o <<"_">> \o currency
    \o <<"-order details.pdf">>

\* the name built for the page at hand has the form, with a date of the run
OneNameForm ==
  pc = "write" =>
    \E d \in 1..Len(Dates) :
      filename = NameForm(Dates[d], sequence_number, ai_results.v.simplified_name.v,
                          ai_results.v.currency.v)

\* C17: the file name built for an accepted page is
\* S<YYMMDD>-<SEQ>_<label>_<CURRENCY>-order details.pdf with a date of the run,
\* the sequence number of the page, the simplified name of the record and its
\* currency; the files of one run all carry the same date; date 240531,
\* sequence 3, label Mirae and currency USD give
\* S240531-03_Mirae_USD-order details.pdf.
C17_FileNameForm ==
  /\ OneNameForm
  /\ \A i, j \in 1..Len(generated_files) :
       generated_files[i].filename[2] = generated_files[j].filename[2]
  /\ FileName("240531", 3, <<"Mirae">>, Str(<<"USD">>))
       = <<"S", "240531", "-", "0", "3", "_", "Mirae", "_", "USD", "-order details.pdf">>

\* C18: on the three-page document, the oracle giving no record, process_pdf
\* returns two files, numbered start_sequence and start_sequence + 1, both
\* with the label Mirae and the currency USD, the first with the amount of
\* page 1 and the second with the amount of the line of page 2; page 3 gives
\* no file and takes no number.
C18_ThreePageScenario ==
  /\ (pc = "close" /\ ~aborted) => sequence_number = start_sequence + 2
  /\ pc = "returned" =>
       /\ Len(result) = 2
       /\ \A i \in 1..2 :
            /\ result[i].filename =
                 <<"S", Dates[1], "-">> \o Padded(start_sequence + i - 1)
                   \o <<"_", "Mirae", "_", "USD", "-order details.pdf">>
            /\ result[i].currency = Str(<<"USD">>)
            /\ result[i].content = ScenarioDoc[i]
       /\ result[1].payment_total = Num(<<"1", "2", "3", "4", ".", "5", "6">>)
       /\ result[2].payment_total = Num(<<"9", "9", ".", "0", "0">>)

\* C18 witness: the run on the three-page document, started at 2, has
\* returned its two files.
C18_Witness ==
  /\ pc = "returned"
  /\ uploaded_file = ScenarioDoc
  /\ start_sequence = 2
  /\ Len(result) = 2
  /\ page_number = 0

\* the number of times a file is offered in the groups of the download section
TimesOffered(file) ==
  Cardinality({<<curr, i>> \in
                 UNION {{<<c, k>> : k \in 1..Len(download_by_currency[c])} :
                          c \in DOMAIN download_by_currency} :
                 download_by_currency[curr][i] = file})

\* C19: when a run started from the UI is over, the archive holds the files
\* that run returned, each once, and nothing else; each of them is offered
\* once, in the group of its currency, and the groups hold nothing else; so
\* also when the run returned no file or was aborted.
C19_DownloadsOfLastRun ==
  (pc = "idle" /\ runs >= 1) =>
    /\ all_files_zip = create_zip_file(result)
    /\ \A i \in 1..Len(result) :
         /\ TimesOffered(result[i]) = 1
         /\ \E k \in 1..Len(download_by_currency[result[i].currency]) :
              download_by_currency[result[i].currency][k] = result[i]
    /\ \A c \in DOMAIN download_by_currency :
         \A k \in 1..Len(download_by_currency[c]) :
           \E i \in 1..Len(result) : download_by_currency[c][k] = result[i]

\* a value that is not None, not the empty string, not zero
NonEmpty(x) == x.t # "none" /\ x.v # <<>> /\ x # Num(<<"0">>)

\* the oracle record is absent or lacks a non-empty value for one of the
\* three fields
Lacking(rec) ==
  \/ rec.t # "dict"
  \/ \E f \in {"simplified_name", "currency", "payment_total"} : ~NonEmpty(rec.v[f])

\* C20: for a page that is no summary page, the record at hand after the
\* oracle step is the normalized oracle record; the fallback is the next step
\* exactly when that record is absent or lacks one of the three fields, else
\* the record is accepted as it is; the fallback is entered from nowhere else.
C20_FallbackIffIncomplete ==
  [][/\ (pc = "check") =>
          /\ ~is_summary_page(page_text)
          /\ ai_results = IF page_image THEN get_gemini_response(response) ELSE NoneVal
          /\ pc' = "fallback" <=> Lacking(ai_results)
          /\ ~Lacking(ai_results) => (pc' = "accept" /\ ai_results' = ai_results)
     /\ (pc' = "fallback" /\ pc # "fallback") => pc = "check"]_vars

\* C20 witness: the fallback is invoked on a page for which the oracle gave a
\* record with a currency but no simplified name and no payment total.
C20_Witness ==
  /\ pc = "fallback"
  /\ ai_results = RecPartial
  /\ response = Str(<<RecPartial, Tok("\n")>>)

\* the oracle record of the page at hand, None when the page was not rendered
OracleRecord == IF page_image THEN get_gemini_response(response) ELSE NoneVal

\* C21: when the oracle record of a page is incomplete, the record the page
\* goes on with is the one the fallback derives from the page text and the
\* context before the page, whatever the oracle record holds; when the
\* fallback derives none the page is skipped and the context, the counter and
\* the output list stay as they are.
C21_IncompleteRecordDiscarded ==
  [][/\ (pc = "fallback") =>
          /\ Lacking(OracleRecord)
          /\ pc' = "accept" =>
               /\ ai_results' = fallback_extract_from_text(page_text, context)
               /\ ai_results'.t = "dict"
          /\ pc' # "accept" =>
               /\ fallback_extract_from_text(page_text, context) = NoneVal
               /\ page_number' = page_number + 1
          /\ UNCHANGED <<context, sequence_number, generated_files>>
     /\ (pc \in {"accept", "write", "append"} /\ Lacking(OracleRecord)) =>
          ai_results = fallback_extract_from_text(page_text, context)]_vars

\* C21 witness: the oracle gave a record with the currency EUR and no payment
\* total; the page is accepted with the currency of its own text.
C21_Witness ==
  /\ pc = "accept"
  /\ response = Str(<<RecPartial, Tok("\n")>>)
  /\ page_image
  /\ ai_results.v.currency = Str(<<"USD">>)
  /\ ai_results.v.full_name # RecPartial.v.full_name

\* the oracle record has a full name, a currency and a payment total, and no
\* simplified name
NameOnlyMissing(rec) ==
  /\ rec.t = "dict"
  /\ NonEmpty(rec.v.full_name)
  /\ NonEmpty(rec.v.currency)
  /\ NonEmpty(rec.v.payment_total)
  /\ ~NonEmpty(rec.v.simplified_name)

\* C22: a page whose oracle record lacks the simplified name only goes on
\* with the oracle's currency and payment total, and its file is named with
\* simplify_from_full of the oracle's full name.
C22_SafetyNetLabel ==
  [][(pc = "check" /\ NameOnlyMissing(OracleRecord)) =>
       /\ pc' = "accept"
       /\ ai_results'.v.currency = OracleRecord.v.currency
       /\ ai_results'.v.payment_total = OracleRecord.v.payment_total
       /\ ChosenName(ai_results'.v) = Str(simplify_from_full(OracleRecord.v.full_name.v))]_vars

\* a continuation page: no Fund Hse Settlement Inst : line and no Currency : line
NoHeader(text) == OwnFundHse(text) = {} /\ OwnCurrency(text) = {}

\* a continuation page is accepted through the fallback in this step
ContinuationAccepted == pc = "fallback" /\ pc' = "accept" /\ NoHeader(page_text)

\* C23, as stated: a continuation page accepted through the fallback has the
\* simplified name and the currency of the last file emitted before it, so
\* there is such a file.
C23_InheritsFromLastFile ==
  [][ContinuationAccepted =>
       /\ generated_files # <<>>
       /\ LET last == generated_files[Len(generated_files)]
          IN /\ ai_results'.v.currency = last.currency
             /\ last.filename = FileName(last.filename[2], EmbeddedSeq(last.filename),
                                         ai_results'.v.simplified_name.v, last.currency)]_vars

\* C23, amended: a continuation page accepted through the fallback has the
\* simplified name and the currency of the context; these are the ones of
\* the last page before it for which a complete record was obtained, because
\* the context takes them from every such record, before the file of the
\* page is written, and no other step of a page changes the context.
C23_InheritsFromLastRecord ==
  [][/\ ContinuationAccepted =>
          /\ ai_results'.v.simplified_name = context.simplified_name
          /\ ai_results'.v.currency = context.currency
     /\ (pc = "accept" /\ pc' # "accept") =>
          /\ ~Lacking(ai_results)
          /\ context'.simplified_name = ai_results.v.simplified_name
          /\ context'.currency = ai_results.v.currency
     /\ (pc \in (PageSteps \cup {"progress"}) /\ ~(pc = "accept" /\ pc' # "accept")) =>
          context' = context]_vars

\* C23 witness: the second page, a continuation page, is accepted through the
\* fallback with values of the first page, for which no file was emitted.
C23_Witness ==
  /\ pc = "accept"
  /\ page_number = 1
  /\ NoHeader(page_text)
  /\ Lacking(OracleRecord)
  /\ generated_files = <<>>
  /\ ai_results.v.currency = context.currency

\* C24: the pages are taken one at a time in ascending order: the page index
\* moves by one, to the next page or to the end of the loop; the oracle step
\* is entered from the rendering of a page that is no summary page only, and
\* left for the completeness test of the same page; no later step of the page
\* goes back to rendering or to the oracle; the loop is left when every page
\* has been visited.
C24_PagesInOrder ==
  [][/\ (pc \in PageSteps \cup {"progress"} /\ page_number' # page_number) =>
          /\ page_number' = page_number + 1
          /\ pc' = IF page_number' < total_pages THEN "progress" ELSE "close"
     /\ (pc' = "oracle" /\ pc # "oracle") =>
          /\ pc = "render"
          /\ ~is_summary_page(page_text)
          /\ page_text = uploaded_file[page_number + 1]
     /\ (pc = "oracle") => (pc' = "check" /\ page_number' = page_number)
     /\ (pc \in {"check", "fallback", "accept", "write", "append"}) =>
          pc' \notin {"text", "classify", "render", "oracle"}
     /\ (pc' = "render" /\ pc # "render") => pc = "classify"
     /\ (pc' = "close" /\ pc # "close") => page_number' = total_pages]_vars

\* C24 witness: the loop over a two-page document is left after the oracle
\* call of the second page failed and the page was emitted by the fallback.
C24_Witness ==
  /\ pc = "close"
  /\ total_pages = 2
  /\ page_number = 2
  /\ Len(generated_files) = 2
  /\ ~aborted

\* C25: for every page index i of a run the progress value (i+1)/total_pages
\* is reported exactly once, after page i has been processed, and the
\* reported values never decrease: while the loop runs, every value reported
\* is that of a page the loop has left behind; no value is reported twice;
\* when the loop has ended without an exception, every page's value has been
\* reported.
C25_ProgressAfterPage ==
  /\ \A k, j \in 1..Len(reported) : k < j => reported[k] < reported[j]
  /\ (pc \in PageSteps \cup {"progress", "close"}) =>
       \A k \in 1..Len(reported) : reported[k] <= page_number
  /\ (pc = "finally" /\ ~aborted) =>
       {reported[k] : k \in 1..Len(reported)} = 1..total_pages

\* C26: one call of create_draft_email issues at most max_retries requests,
\* ends at the first attempt that succeeds and after max_retries failed ones,
\* and issues no further request once the service has created a draft, so
\* that it leaves at most one draft behind: an attempt is numbered below
\* max_retries; a step of the call that stays in the call is the next attempt
\* and has created no draft; the last attempt ends the call; a step creates
\* at most one draft.
C26_OneDraftPerCall ==
  [][(pc = "draft") =>
       /\ attempt < MaxRetries
       /\ Len(drafts') <= Len(drafts) + 1
       /\ (pc' = "draft" /\ file_idx' = file_idx) =>
            /\ attempt' = attempt + 1
            /\ drafts' = drafts
       /\ (attempt = MaxRetries - 1) => file_idx' = file_idx + 1]_vars

====
